---- MODULE Spec2Model ----
(***************************************************************************)
(* CliUtils of the imperative CLI framework: option-name canonicalization  *)
(* (getOptionFormat), redaction (censorCLIArgs, censorYargsArguments),     *)
(* value extraction from profiles and from the environment.                *)
(*                                                                         *)
(* A JavaScript string is a sequence of one-character strings, so that     *)
(* "a-b" is <<"a", "-", "b">>.  The primitives undefined, null and NaN are *)
(* the one-element sequences below: their element has more than one        *)
(* character, so they differ from every string.                            *)
(*                                                                         *)
(* Each function has its own specification, whose initial states are the   *)
(* arguments of one call: SpecFormat, SpecCensor, SpecProfiles, SpecEnv.   *)
(* The variables of the other functions stay idle.                         *)
(***************************************************************************)
EXTENDS Integers, Sequences, FiniteSets, TLC

VARIABLES
    fKey,       \* getOptionFormat: the key passed by the caller
    fOut,       \* getOptionFormat: <<the IOptionFormat returned for fKey>>, <<>> before the call
    fAgain,     \* the second call: <<[from |-> "camelCase" | "kebabCase", out |-> IOptionFormat]>>, <<>> before it
    heap,       \* redaction: the objects of the caller and of the callee, by reference
    cKind,      \* redaction: "cli" for censorCLIArgs, "yargs" for censorYargsArguments
    cArgs,      \* redaction: the reference passed as args
    cGiven,     \* redaction: what args held when the call was made
    cRet,       \* redaction: <<the reference returned>>, <<>> before the return
    cWritten,   \* redaction: whether the caller has written to the returned object
    pProfiles,  \* extraction: the loaded profile of each profile type, Null when none is loaded
    pOrder,     \* extraction: profileOrder
    pOptions,   \* extraction: options
    pIdx,       \* extraction: how many callbacks of profileOrder.forEach have completed
    pArgs,      \* extraction: the local args
    pGets,      \* extraction: the profile types profiles.get was called with, in order
    pState,     \* extraction: "idle", "running", "returned" or "thrown"
    pOutcome,   \* extraction: <<the object returned>> or <<the error thrown>>, <<>> before
    eEnv,       \* environment: the variables of the process environment
    ePrefix,    \* environment: envPrefix
    eOptions,   \* environment: options
    eRet,       \* environment: <<the object returned>>, <<>> before the return
    mHeap,      \* mergeArguments: the objects of the caller and of the callee, by reference
    mSources,   \* mergeArguments: args, each null, undefined or a reference
    mGiven,     \* mergeArguments: what each source held when the call was made
    mRet,       \* mergeArguments: <<the reference returned>>, <<>> before the return
    oName,      \* setOptionValue, getDashFormOfOption: the option name passed
    oValue,     \* setOptionValue: the value passed
    oCall,      \* which of the two functions was called, "none" before the call
    oRet,       \* <<what the call returned or threw>>, <<>> before
    yRoot,      \* YargsConfigurer: rootCommand.children
    yArgv,      \* YargsConfigurer: argv of the "*" command, its positional words and V
    yCommandLine, \* YargsConfigurer: commandLine
    yHandler,   \* YargsConfigurer: the handler that ran, "none" before
    yExitCode,  \* process.exitCode: <<the code>>, <<>> while not set
    yStopYargs, \* AbstractCommandYargs.STOP_YARGS
    ySearch,    \* <<the locals of the search for the closest command>>, <<>> without a search
    yBuilt,     \* <<the locals of buildFailureMessage at its return>>, <<>> without a call
    yInvoked,   \* <<the definition and the arguments of the command invoked>>, <<>> before
    sFiles,     \* AppSettings: what each settings file on disk holds
    sInstance,  \* AppSettings.mInstance: undefined or a reference
    sObjects,   \* AppSettings: the instances constructed, by reference
    sLog,       \* AppSettings: the calls made so far, each with its outcome
    sWrites     \* AppSettings: the file writes started, each with its promise

fmtVars == <<fKey, fOut, fAgain>>
cenVars == <<heap, cKind, cArgs, cGiven, cRet, cWritten>>
proVars == <<pProfiles, pOrder, pOptions, pIdx, pArgs, pGets, pState, pOutcome>>
envVars == <<eEnv, ePrefix, eOptions, eRet>>
mrgVars == <<mHeap, mSources, mGiven, mRet>>
optVars == <<oName, oValue, oCall, oRet>>
\* the variables of the functions added after the first four
cmdVars == <<yRoot, yArgv, yCommandLine, yHandler, yExitCode, yStopYargs, ySearch, yBuilt, yInvoked>>
setVars == <<sFiles, sInstance, sObjects, sLog, sWrites>>
otherVars == <<mrgVars, optVars, cmdVars, setVars>>
vars == <<fmtVars, cenVars, proVars, envVars, otherVars>>

Undefined == <<"undefined">>
Null == <<"null">>
NaN == <<"NaN">>

\* ---------------------------------------------------------------- bounds
MaxLen == 4
MaxArgs == 4
MaxKeys == 3
MaxOrder == 3
MaxOptions == 2
MaxSources == 3
MaxGroups == 2
MaxWords == 2
MaxCalls == 4

\* ------------------------------------------------------------ characters
\* the letters of the keys: those the bounded keys are drawn from and those of
\* the documented examples, in lower and in upper case
LowerLetters == <<"a", "b", "d", "e", "h", "l", "o", "r", "w">>
UpperLetters == <<"A", "B", "D", "E", "H", "L", "O", "R", "W">>
LowerChars == {LowerLetters[i] : i \in 1..Len(LowerLetters)}
UpperChars == {UpperLetters[i] : i \in 1..Len(UpperLetters)}
DigitChars == {"1"}
Dash == "-"
\* \w of the regular expressions: [A-Za-z0-9_]
WordChars == LowerChars \cup UpperChars \cup DigitChars \cup {"_"}
\* the characters of the bounded keys; "." stands for the characters that are
\* neither "-" nor \w
Alphabet == {"a", "b", "A", "B", "1", "_", Dash, "."}

toUpperCase(c) ==
    IF c \in LowerChars
    THEN UpperLetters[CHOOSE i \in 1..Len(LowerLetters) : LowerLetters[i] = c]
    ELSE c
toLowerCase(c) ==
    IF c \in UpperChars
    THEN LowerLetters[CHOOSE i \in 1..Len(UpperLetters) : UpperLetters[i] = c]
    ELSE c

StringsUpTo(n) == UNION {[1..k -> Alphabet] : k \in 0..n}

\* the number of consecutive "-" of s from position i on (positions from 1)
RECURSIVE DashRun(_, _)
DashRun(s, i) ==
    IF i <= Len(s) /\ s[i] = Dash THEN 1 + DashRun(s, i + 1) ELSE 0

\* ------------------------------------------------- getOptionFormat: camel
\* the length of the match of /(-+)/ at position i: the dashes without the
\* character after them
CamelMatchLenDashesOnly(s, i) == DashRun(s, i)

\* the length of the match of /(-+\w?)/ at position i, 0 when there is none
CamelMatchLen(s, i) ==
    LET d == DashRun(s, i)
    IN  IF d = 0 THEN 0
        ELSE IF i + d <= Len(s) /\ s[i + d] \in WordChars THEN d + 1 ELSE d

\* CamelReplace without toUpperCase
CamelReplaceNoUpper(p1) ==
    LET returnChar == p1[Len(p1)]
    IN  IF returnChar # Dash THEN <<returnChar>> ELSE <<>>

\* the replacement callback of camelCase
CamelReplace(p1) ==
    LET returnChar == toUpperCase(p1[Len(p1)])
    IN  IF returnChar # Dash THEN <<returnChar>> ELSE <<>>

RECURSIVE CamelFrom(_, _)
CamelFrom(s, i) ==
    IF i > Len(s) THEN <<>>
    ELSE LET m == CamelMatchLen(s, i)
         IN  IF m = 0 THEN <<s[i]>> \o CamelFrom(s, i + 1)
             ELSE CamelReplace(SubSeq(s, i, i + m - 1)) \o CamelFrom(s, i + m)

\* ------------------------------------------------- getOptionFormat: kebab
\* KebabMatchLen without the third alternative, -$
KebabMatchLenNoTrailing(s, i) ==
    LET d == DashRun(s, i)
    IN  IF i + d <= Len(s) /\ s[i + d] \in UpperChars THEN d + 1
        ELSE IF d >= 2 THEN d
        ELSE 0

\* the length of the match of /(-*[A-Z]|-{2,}|-$)/ at position i, 0 when
\* there is none; the alternatives are tried in this order
KebabMatchLen(s, i) ==
    LET d == DashRun(s, i)
    IN  IF i + d <= Len(s) /\ s[i + d] \in UpperChars THEN d + 1
        ELSE IF d >= 2 THEN d
        ELSE IF d = 1 /\ i = Len(s) THEN 1
        ELSE 0

\* KebabReplace whose branch 1.2 forgets toLowerCase
KebabReplaceNoLower(p1, offset, inputString) ==
    IF Len(p1) = 1
    THEN IF p1 = <<Dash>> THEN <<>>
         ELSE <<Dash, p1[1]>>
    ELSE LET returnChar == p1[Len(p1)]
         IN  IF returnChar = Dash
             THEN IF offset + Len(p1) = Len(inputString) THEN <<>>
                  ELSE <<Dash>>
             ELSE <<Dash, toLowerCase(returnChar)>>

\* the replacement callback of kebabCase; offset counts from 0 as in the code
KebabReplace(p1, offset, inputString) ==
    IF Len(p1) = 1
    THEN IF p1 = <<Dash>> THEN <<>>
         ELSE <<Dash, toLowerCase(p1[1])>>
    ELSE LET returnChar == p1[Len(p1)]
         IN  IF returnChar = Dash
             THEN IF offset + Len(p1) = Len(inputString) THEN <<>>
                  ELSE <<Dash>>
             ELSE <<Dash, toLowerCase(returnChar)>>

RECURSIVE KebabFrom(_, _)
KebabFrom(s, i) ==
    IF i > Len(s) THEN <<>>
    ELSE LET m == KebabMatchLen(s, i)
         IN  IF m = 0 THEN <<s[i]>> \o KebabFrom(s, i + 1)
             ELSE KebabReplace(SubSeq(s, i, i + m - 1), i - 1, s) \o KebabFrom(s, i + m)

getOptionFormat(key) ==
    [camelCase |-> CamelFrom(key, 1), kebabCase |-> KebabFrom(key, 1), key |-> key]

\* -------------------------------------------------------------- redaction
CENSOR_RESPONSE == <<"*", "*", "*", "*">>

CENSORED_OPTIONS ==
    << <<"a", "u", "t", "h">>,
       <<"p">>,
       <<"p", "a", "s", "s">>,
       <<"p", "a", "s", "s", "w", "o", "r", "d">>,
       <<"p", "a", "s", "s", "p", "h", "r", "a", "s", "e">>,
       <<"c", "r", "e", "d", "e", "n", "t", "i", "a", "l", "s">>,
       <<"a", "u", "t", "h", "e", "n", "t", "i", "c", "a", "t", "i", "o", "n">>,
       <<"b", "a", "s", "i", "c", "-", "a", "u", "t", "h">>,
       <<"b", "a", "s", "i", "c", "A", "u", "t", "h">> >>

OPT_LONG_DASH == <<"-", "-">>
OPT_SHORT_DASH == <<"-">>

\* the result of a call that may throw: [threw |-> FALSE, value |-> v] or
\* [threw |-> TRUE, error |-> e]
Return(v) == [threw |-> FALSE, value |-> v]
Throw(e) == [threw |-> TRUE, error |-> e]

isNullOrUndefined(v) == v = Null \/ v = Undefined

\* getDashFormOfOption with the long dashes from the third character on
getDashFormOfOptionLongFromThree(optionName) ==
    IF ~isNullOrUndefined(optionName) /\ Len(optionName) >= 1
    THEN LET dashes == IF Len(optionName) > 2 THEN OPT_LONG_DASH ELSE OPT_SHORT_DASH
         IN  Return(dashes \o optionName)
    ELSE Throw([msg |-> "A null or blank option was supplied. Please correct the option definition."])

getDashFormOfOption(optionName) ==
    IF ~isNullOrUndefined(optionName) /\ Len(optionName) >= 1
    THEN LET dashes == IF Len(optionName) > 1 THEN OPT_LONG_DASH ELSE OPT_SHORT_DASH
         IN  Return(dashes \o optionName)
    ELSE Throw([msg |-> "A null or blank option was supplied. Please correct the option definition."])

\* Array.prototype.indexOf: the index, from 0, of the first element equal to
\* v, and -1 when there is none
indexOf(arr, v) ==
    IF \E i \in 1..Len(arr) : arr[i] = v
    THEN (CHOOSE i \in 1..Len(arr) : arr[i] = v /\ \A j \in 1..(i - 1) : arr[j] # v) - 1
    ELSE -1

\* JSON.parse(JSON.stringify(v)) of a value inside an array or an object:
\* undefined (in an array) and NaN come back as null
JsonValue(v) == IF v = Undefined \/ v = NaN THEN Null ELSE v

\* JSON.parse(JSON.stringify(arr)) of an array
JsonArray(arr) == [i \in 1..Len(arr) |-> JsonValue(arr[i])]

\* An object is the sequence of its entries [key, value] in insertion order.
\* JSON.parse(JSON.stringify(obj)) leaves out the keys whose value is undefined
RECURSIVE JsonObject(_)
JsonObject(obj) ==
    IF obj = <<>> THEN <<>>
    ELSE IF Head(obj).value = Undefined THEN JsonObject(Tail(obj))
    ELSE <<[key |-> Head(obj).key, value |-> JsonValue(Head(obj).value)]>> \o JsonObject(Tail(obj))

\* a new object: the state of the heap after the allocation, and its reference
Alloc(h, obj) ==
    LET r == Cardinality(DOMAIN h) + 1
    IN  [heap |-> h @@ (r :> obj), ref |-> r]

\* newArgs is args itself
AliasArray(h, ref) == [heap |-> h, ref |-> ref]

\* const newArgs: string[] = JSON.parse(JSON.stringify(args))
JsonCloneArray(h, ref) == Alloc(h, JsonArray(h[ref]))

\* const newArgs: Arguments = JSON.parse(JSON.stringify(args))
JsonCloneObject(h, ref) == Alloc(h, JsonObject(h[ref]))

\* the body of the loop, censoring after every occurrence of value
CensorAfterEvery(h, args, newArgs, value) ==
    [h EXCEPT ![newArgs] =
        [j \in 1..Len(h[newArgs]) |->
            IF j >= 2 /\ j - 1 <= Len(h[args]) /\ h[args][j - 1] = value
            THEN CENSOR_RESPONSE ELSE h[newArgs][j]]]

\* the body of the loop of censorCLIArgs for one dash form, value
CensorAfter(h, args, newArgs, value) ==
    IF indexOf(h[args], value) >= 0
    THEN LET valueIndex == indexOf(h[args], value)
         IN  IF valueIndex < Len(h[args]) - 1
             THEN [h EXCEPT ![newArgs][valueIndex + 2] = CENSOR_RESPONSE]
             ELSE h
    ELSE h

\* for (const value of censoredValues), from the k-th value on
RECURSIVE CensorValues(_, _, _, _, _)
CensorValues(h, args, newArgs, censoredValues, k) ==
    IF k > Len(censoredValues) THEN h
    ELSE CensorValues(CensorAfter(h, args, newArgs, censoredValues[k]),
                      args, newArgs, censoredValues, k + 1)

\* CENSORED_OPTIONS.map(CliUtils.getDashFormOfOption): no name of the list is
\* empty, so no call throws
CensoredDashForms ==
    [i \in 1..Len(CENSORED_OPTIONS) |-> getDashFormOfOption(CENSORED_OPTIONS[i]).value]

\* the heap after the call, and the reference returned
censorCLIArgs(h, args) ==
    LET c == JsonCloneArray(h, args)
        newArgs == c.ref
        censoredValues == CensoredDashForms
    IN  [heap |-> CensorValues(c.heap, args, newArgs, censoredValues, 1), ref |-> newArgs]

\* ===: no value is identical to NaN
StrictEquals(a, b) == a = b /\ a # NaN

\* Object.keys(obj)
ObjectKeys(obj) == [i \in 1..Len(obj) |-> obj[i].key]

HasKey(obj, key) == \E i \in 1..Len(obj) : obj[i].key = key

\* obj[key] of a key that obj has
Get(obj, key) == obj[CHOOSE i \in 1..Len(obj) : obj[i].key = key].value

\* obj[key] = value, of a key that obj has
Set(obj, key, value) ==
    [i \in 1..Len(obj) |-> IF obj[i].key = key THEN [key |-> key, value |-> value] ELSE obj[i]]

\* for (const checkAliasKey of Object.keys(newArgs)), from the k-th key on
RECURSIVE CensorAliases(_, _, _, _)
CensorAliases(obj, keys, valueToCensor, k) ==
    IF k > Len(keys) THEN obj
    ELSE LET checkAliasKey == keys[k]
         IN  CensorAliases(IF StrictEquals(Get(obj, checkAliasKey), valueToCensor)
                           THEN Set(obj, checkAliasKey, CENSOR_RESPONSE)
                           ELSE obj,
                           keys, valueToCensor, k + 1)

\* the body of the outer loop without the scan of the other keys
CensorOptionOnly(obj, optionName) ==
    IF indexOf(CENSORED_OPTIONS, optionName) >= 0
    THEN Set(obj, optionName, CENSOR_RESPONSE)
    ELSE obj

\* the body of the outer loop of censorYargsArguments for one key
CensorOption(obj, optionName) ==
    IF indexOf(CENSORED_OPTIONS, optionName) >= 0
    THEN LET valueToCensor == Get(obj, optionName)
             censored == Set(obj, optionName, CENSOR_RESPONSE)
         IN  CensorAliases(censored, ObjectKeys(censored), valueToCensor, 1)
    ELSE obj

\* for (const optionName of Object.keys(newArgs)), from the k-th key on; the
\* keys are those newArgs had when the loop started
RECURSIVE CensorOptions(_, _, _, _)
CensorOptions(h, newArgs, keys, k) ==
    IF k > Len(keys) THEN h
    ELSE CensorOptions([h EXCEPT ![newArgs] = CensorOption(h[newArgs], keys[k])],
                       newArgs, keys, k + 1)

\* the heap after the call, and the reference returned
censorYargsArguments(h, args) ==
    LET c == JsonCloneObject(h, args)
        newArgs == c.ref
    IN  [heap |-> CensorOptions(c.heap, newArgs, ObjectKeys(c.heap[newArgs]), 1), ref |-> newArgs]

\* ------------------------------------------------------------- extraction
\* An object read by name only is the function from its own property names
\* to their values; a property may be present with the value undefined.
EmptyObject == [k \in {} |-> Null]
\* a value that is an object: it differs from null, undefined and every string
Object(properties) == <<"object", properties>>
PropertiesOf(object) == object[2]
hasOwnProperty(obj, name) == name \in DOMAIN obj

\* {...a, ...b}
Spread(a, b) == b @@ a

\* setOptionValue without the camel spelling
setOptionValueKebabOnly(optName, value) ==
    LET names == getOptionFormat(optName)
    IN  (names.kebabCase :> value)

setOptionValue(optName, value) ==
    LET names == getOptionFormat(optName)
    IN  (names.kebabCase :> value) @@ (names.camelCase :> value)

\* ------------------------------------------------------------------ merge
\* a value that is a reference to an object of the heap
Ref(r) == <<"ref", r>>

\* ...obj: the own properties of obj, none when obj is null or undefined
SpreadOf(h, obj) == IF isNullOrUndefined(obj) THEN EmptyObject ELSE h[obj[2]]

\* the callback with the operands of the spread exchanged
MergeCallbackEarlierWins(h, merged, obj) == Alloc(h, Spread(SpreadOf(h, obj), h[merged]))

\* merged = {...merged, ...obj}: the heap after, and the new value of merged
MergeCallback(h, merged, obj) == Alloc(h, Spread(h[merged], SpreadOf(h, obj)))

\* args.forEach, from the k-th source on, and return merged
RECURSIVE MergeFrom(_, _, _, _)
MergeFrom(h, merged, args, k) ==
    IF k > Len(args) THEN [heap |-> h, ref |-> merged]
    ELSE LET m == MergeCallback(h, merged, args[k])
         IN  MergeFrom(m.heap, m.ref, args, k + 1)

\* let merged = {}, then the loop
mergeArguments(h, args) ==
    LET m == Alloc(h, EmptyObject)
    IN  MergeFrom(m.heap, m.ref, args, 1)

\* profiles.get(profileType, false): the first profile loaded for the type,
\* Null when there is none
ProfilesGet(profiles, profileType) == profiles[profileType]

ProfileNotFound(profileType) ==
    [msg |-> <<"Profile of type \"", profileType,
               "\" does not exist within the loaded profiles for the command.">>,
     additionalDetails |-> "Command preparation was attempting to extract option values from profiles."]

\* the callback of options.forEach: args after opt was looked up in profile
ExtractOption(profile, args, opt) ==
    IF hasOwnProperty(profile, opt.name) /\ ~hasOwnProperty(args, opt.name)
       /\ profile[opt.name] # Undefined
    THEN LET keys == setOptionValue(opt.name, profile[opt.name])
         IN  Spread(args, keys)
    ELSE args

\* options.forEach, from the k-th option on
RECURSIVE ExtractOptions(_, _, _, _)
ExtractOptions(profile, args, options, k) ==
    IF k > Len(options) THEN args
    ELSE ExtractOptions(profile, ExtractOption(profile, args, options[k]), options, k + 1)

\* ------------------------------------------------------------ environment
\* the value of the environment variable of the option: no variable is read
getEnvValForOption(cmdName, camelOrKababOption) ==
    LET optChoices == getOptionFormat(camelOrKababOption)
    IN  Null

\* options.forEach, from the k-th option on: what setOptionValue returns is
\* dropped, args is left as it was
RECURSIVE ExtractEnv(_, _, _, _)
ExtractEnv(envPrefix, args, options, k) ==
    IF k > Len(options) THEN args
    ELSE LET envValue == getEnvValForOption(envPrefix, options[k].name)
             dropped == IF envValue # Null THEN setOptionValue(options[k].name, envValue)
                        ELSE EmptyObject
         IN  ExtractEnv(envPrefix, args, options, k + 1)

extractEnvForOptions(envPrefix, options) == ExtractEnv(envPrefix, EmptyObject, options, 1)

\* -------------------------------------------------------- YargsConfigurer
\* The fixed texts of a message are single elements of the sequence, the
\* texts that come from the command line and from the command tree are
\* spelled character by character.
Space == " "

\* String.prototype.trim, with the space as the only whitespace
RECURSIVE TrimStart(_)
TrimStart(s) == IF s # <<>> /\ s[1] = Space THEN TrimStart(Tail(s)) ELSE s
RECURSIVE TrimEnd(_)
TrimEnd(s) == IF s # <<>> /\ s[Len(s)] = Space THEN TrimEnd(SubSeq(s, 1, Len(s) - 1)) ELSE s
trim(s) == TrimEnd(TrimStart(s))

\* Array.prototype.join
RECURSIVE join(_, _)
join(arr, separator) ==
    IF arr = <<>> THEN <<>>
    ELSE IF Len(arr) = 1 THEN arr[1]
    ELSE arr[1] \o separator \o join(Tail(arr), separator)

\* s.split(" "): the pieces between the spaces, of which there is at least one
RECURSIVE SplitFrom(_, _, _)
SplitFrom(s, i, piece) ==
    IF i > Len(s) THEN <<piece>>
    ELSE IF s[i] = Space THEN <<piece>> \o SplitFrom(s, i + 1, <<>>)
    ELSE SplitFrom(s, i + 1, Append(piece, s[i]))

\* s.split(" ", limit): the first limit pieces
split(s, limit) ==
    LET pieces == SplitFrom(s, 1, <<>>)
    IN  SubSeq(pieces, 1, IF Len(pieces) < limit THEN Len(pieces) ELSE limit)

\* arr[i], i from 0: undefined past the end
At(arr, i) == IF i + 1 <= Len(arr) THEN arr[i + 1] ELSE Undefined

\* the text of a value inside a string concatenation
StringOf(v) ==
    IF v = Undefined THEN <<"u", "n", "d", "e", "f", "i", "n", "e", "d">> ELSE v

\* CommandUtils.flattenCommandTree: the nodes below the root, depth first,
\* each with the space-joined path of names from the root as its fullName
RECURSIVE FlattenFrom(_, _, _)
FlattenFrom(nodes, prefix, k) ==
    IF k > Len(nodes) THEN <<>>
    ELSE LET fullName == IF prefix = <<>> THEN nodes[k].name
                         ELSE prefix[1] \o <<Space>> \o nodes[k].name
         IN  <<[fullName |-> fullName]>>
             \o FlattenFrom(nodes[k].children, <<fullName>>, 1)
             \o FlattenFrom(nodes, prefix, k + 1)

flattenCommandTree(children) == FlattenFrom(children, <<>>, 1)

\* the edit distance: one row of the table after the other
Min3(x, y, z) == IF x <= y /\ x <= z THEN x ELSE IF y <= z THEN y ELSE z

RECURSIVE LevCells(_, _, _, _, _)
LevCells(prev, c, b, j, row) ==
    IF j > Len(b) THEN row
    ELSE LevCells(prev, c, b, j + 1,
                  Append(row, Min3(prev[j + 1] + 1, row[j] + 1,
                                   prev[j] + (IF c = b[j] THEN 0 ELSE 1))))

RECURSIVE LevRows(_, _, _, _)
LevRows(a, b, i, prev) ==
    IF i > Len(a) THEN prev[Len(b) + 1]
    ELSE LevRows(a, b, i + 1, LevCells(prev, a[i], b, 1, <<prev[1] + 1>>))

\* new lev(a, b).distance
lev(a, b) == LevRows(a, b, 1, [j \in 1..(Len(b) + 1) |-> j - 1])

\* let minimumLevDistance: number = 999999
InitialMinimumLevDistance == 999999

\* the body of the loop in which a command as near as the stored one
\* replaces it
CompareCommandLaterWins(search, attemptedCommand, command) ==
    IF Len(trim(command.fullName)) = 0 THEN search
    ELSE LET distance == lev(attemptedCommand, command.fullName)
         IN  IF distance <= search.minimumLevDistance
             THEN [minimumLevDistance |-> distance,
                   closestCommand |-> command.fullName,
                   compared |-> Append(search.compared, command.fullName)]
             ELSE [search EXCEPT !.compared = Append(@, command.fullName)]

\* the body of the loop over commandTree; compared lists the names that
\* were given to lev
CompareCommand(search, attemptedCommand, command) ==
    IF Len(trim(command.fullName)) = 0 THEN search
    ELSE LET distance == lev(attemptedCommand, command.fullName)
         IN  IF distance < search.minimumLevDistance
             THEN [minimumLevDistance |-> distance,
                   closestCommand |-> command.fullName,
                   compared |-> Append(search.compared, command.fullName)]
             ELSE [search EXCEPT !.compared = Append(@, command.fullName)]

\* for (const command of commandTree), from the k-th command on
RECURSIVE CompareFrom(_, _, _, _)
CompareFrom(search, attemptedCommand, commandTree, k) ==
    IF k > Len(commandTree) THEN search
    ELSE CompareFrom(CompareCommand(search, attemptedCommand, commandTree[k]),
                     attemptedCommand, commandTree, k + 1)

\* the locals of the search when the loop is over
ClosestCommand(attemptedCommand, children) ==
    CompareFrom([minimumLevDistance |-> InitialMinimumLevDistance,
                 closestCommand |-> Undefined,
                 compared |-> <<>>],
                attemptedCommand, flattenCommandTree(children), 1)

\* const three: number = 3
three == 3

\* the index of the first node whose trimmed name or first alias is value, 0
\* when there is none: the node at which the loop breaks
RECURSIVE FirstMatching(_, _, _)
FirstMatching(nodes, value, k) ==
    IF k > Len(nodes) THEN 0
    ELSE IF trim(nodes[k].name) = value \/ At(nodes[k].aliases, 0) = value THEN k
    ELSE FirstMatching(nodes, value, k + 1)

\* commands after the loop over group2.children
CommandNames(nodes) == join([i \in 1..Len(nodes) |-> nodes[i].name], <<",", Space>>)

\* the clause appended whatever closestCommand is
DidYouMeanAlways(closestCommand, groupValues) ==
    <<"\nUnknown group: ">> \o groupValues[1] \o <<"\n">>
    \o <<"Did you mean: ">> \o StringOf(closestCommand) \o <<"?">>

\* the two format calls under !isNullOrUndefined(closestCommand)
DidYouMean(closestCommand, groupValues) ==
    IF ~isNullOrUndefined(closestCommand)
    THEN <<"\nUnknown group: ">> \o groupValues[1] \o <<"\n">>
         \o <<"Did you mean: ">> \o closestCommand \o <<"?">>
    ELSE <<>>

AvailableCommands(commands) ==
    IF Len(commands) > 0
    THEN <<"\nAvailable commands are \"">> \o commands \o <<"\".">>
    ELSE <<>>

\* buildFailureMessage(closestCommand): the message returned, with the locals
\* it was built from
buildFailureMessage(rootCommandName, commandLine, children, closestCommand) ==
    LET groupValues == split(commandLine, three)
        g == FirstMatching(children, At(groupValues, 0), 1)
        group2s == IF g = 0 THEN <<>> ELSE children[g].children
        g2 == FirstMatching(group2s, At(groupValues, 1), 1)
        groups == <<Space>>
                  \o (IF g # 0 THEN StringOf(At(groupValues, 0)) \o <<Space>> ELSE <<>>)
                  \o (IF g2 # 0 THEN StringOf(At(groupValues, 1)) \o <<Space>> ELSE <<>>)
        commands == IF g2 # 0 THEN CommandNames(group2s[g2].children) ELSE <<>>
    IN  [failureMessage |->
             <<"Command failed due to improper syntax">>
             \o <<"\nCommand entered: \"">> \o rootCommandName \o <<Space>> \o commandLine \o <<"\"">>
             \o DidYouMean(closestCommand, groupValues)
             \o AvailableCommands(commands)
             \o <<"\nUse \"">> \o rootCommandName \o groups
             \o <<"--help\" to view groups, commands, and options.">>,
         groupValues |-> groupValues,
         groups |-> groups,
         commands |-> commands,
         closestCommand |-> closestCommand]

\* Constants.ERROR_EXIT_CODE
ERROR_EXIT_CODE == 1

\* the inputs of the extraction
ProfileTypes == {"base", "user"}
\* a one-word name, a kebab name whose camel spelling is a1, and a name that
\* is neither of its spellings, both of which are a1
OptionNames == {<<"a">>, <<"a", "-", "1">>, <<"a", "1", "-">>}
ProfileValues == {<<"1">>, <<"2">>, Undefined}
Profiles == UNION {[names -> ProfileValues] : names \in SUBSET OptionNames}
OptionLists ==
    UNION {{l \in [1..n -> [name : OptionNames]] : \A i, j \in 1..n : l[i] = l[j] => i = j}
           : n \in 0..MaxOptions}

ExtractionIdle ==
    /\ pProfiles = <<>> /\ pOrder = <<>> /\ pOptions = <<>> /\ pIdx = 0
    /\ pArgs = EmptyObject /\ pGets = <<>> /\ pState = "idle" /\ pOutcome = <<>>

EnvironmentIdle == eEnv = <<>> /\ ePrefix = <<>> /\ eOptions = <<>> /\ eRet = <<>>

\* the inputs of the redaction: the tokens of a command line, and the keys
\* and values of a yargs argument object
PasswordName == CENSORED_OPTIONS[4]
CliTokens ==
    {getDashFormOfOption(<<"p">>).value, getDashFormOfOption(PasswordName).value,
     <<"x">>, <<"y">>, CENSOR_RESPONSE}
CliArgs == UNION {[1..n -> CliTokens] : n \in 0..MaxArgs}

YargsKeys == {PasswordName, <<"p">>, <<"p", "w">>, <<"h", "o", "s", "t">>}
YargsValues == {<<"s">>, <<"t">>, CENSOR_RESPONSE, Undefined, NaN, Null}
YargsObjects ==
    UNION {{obj \in [1..n -> [key : YargsKeys, value : YargsValues]] :
               \A i, j \in 1..n : obj[i].key = obj[j].key => i = j} : n \in 0..MaxKeys}

\* what the caller writes to the object it got back
CallerValue == <<"w">>

FormatIdle == fKey = <<>> /\ fOut = <<>> /\ fAgain = <<>>

CensorIdle ==
    heap = <<>> /\ cKind = "none" /\ cArgs = 0 /\ cGiven = <<>> /\ cRet = <<>> /\ cWritten = FALSE

MergeIdle == mHeap = <<>> /\ mSources = <<>> /\ mGiven = <<>> /\ mRet = <<>>

OptionIdle == oName = <<>> /\ oValue = <<>> /\ oCall = "none" /\ oRet = <<>>

YargsIdle ==
    /\ yRoot = <<>> /\ yArgv = <<>> /\ yCommandLine = <<>> /\ yHandler = "none"
    /\ yExitCode = <<>> /\ yStopYargs = FALSE /\ ySearch = <<>> /\ yBuilt = <<>>
    /\ yInvoked = <<>>

SettingsIdle ==
    sFiles = <<>> /\ sInstance = Undefined /\ sObjects = <<>> /\ sLog = <<>> /\ sWrites = <<>>

OtherIdle == MergeIdle /\ OptionIdle /\ YargsIdle /\ SettingsIdle

CliIdle == FormatIdle /\ CensorIdle /\ ExtractionIdle /\ EnvironmentIdle
cliVars == <<fmtVars, cenVars, proVars, envVars>>
\* what a call of mergeArguments leaves alone
notMrgVars == <<cliVars, optVars, cmdVars, setVars>>
NotMergeIdle == CliIdle /\ OptionIdle /\ YargsIdle /\ SettingsIdle
\* what a call of setOptionValue or getDashFormOfOption leaves alone
notOptVars == <<cliVars, mrgVars, cmdVars, setVars>>
NotOptionIdle == CliIdle /\ MergeIdle /\ YargsIdle /\ SettingsIdle
\* what the handlers of YargsConfigurer leave alone
notCmdVars == <<cliVars, mrgVars, optVars, setVars>>
NotYargsIdle == CliIdle /\ MergeIdle /\ OptionIdle /\ SettingsIdle
\* what the calls of AppSettings leave alone
notSetVars == <<cliVars, mrgVars, optVars, cmdVars>>
NotSettingsIdle == CliIdle /\ MergeIdle /\ OptionIdle /\ YargsIdle

\* the name of the environment variable of an option: the prefix, "_", and
\* the kebab spelling in upper case with "_" for "-"
EnvChar(c) == IF c = Dash THEN "_" ELSE toUpperCase(c)
EnvVarName(envPrefix, optName) ==
    LET kebab == getOptionFormat(optName).kebabCase
    IN  envPrefix \o <<"_">> \o [i \in 1..Len(kebab) |-> EnvChar(kebab[i])]

EnvPrefixes == {<<"A">>, <<"B">>}
EnvVarNames == {EnvVarName(<<"A">>, n) : n \in OptionNames} \cup {<<"B", "_", "A">>}
Environments == UNION {[names -> {<<"1">>, <<"2">>}] : names \in SUBSET EnvVarNames}

InitEnv ==
    /\ eEnv \in Environments
    /\ ePrefix \in EnvPrefixes
    /\ eOptions \in OptionLists
    /\ eRet = <<>>
    /\ FormatIdle /\ CensorIdle /\ ExtractionIdle /\ OtherIdle

CallExtractEnvForOptions ==
    /\ ePrefix # <<>> /\ eRet = <<>>
    /\ eRet' = <<extractEnvForOptions(ePrefix, eOptions)>>
    /\ UNCHANGED <<eEnv, ePrefix, eOptions, fmtVars, cenVars, proVars, otherVars>>

NextEnv == CallExtractEnvForOptions

SpecEnv == InitEnv /\ [][NextEnv]_vars

\* extractOptValueFromProfiles is called: let args: any = {}
InitProfiles ==
    /\ pProfiles \in [ProfileTypes -> {Object(p) : p \in Profiles} \cup {Null}]
    /\ pOrder \in UNION {[1..n -> ProfileTypes] : n \in 0..MaxOrder}
    /\ pOptions \in OptionLists
    /\ pIdx = 0
    /\ pArgs = EmptyObject
    /\ pGets = <<>>
    /\ pState = "running"
    /\ pOutcome = <<>>
    /\ FormatIdle /\ CensorIdle /\ EnvironmentIdle /\ OtherIdle

\* the callback that passes over a profile type without a profile
ExtractFromProfileSkipMissing ==
    /\ pState = "running" /\ pIdx < Len(pOrder)
    /\ LET profileType == pOrder[pIdx + 1]
           profile == ProfilesGet(pProfiles, profileType)
       IN  /\ pGets' = Append(pGets, profileType)
           /\ pArgs' = IF profile = Null THEN pArgs
                       ELSE ExtractOptions(PropertiesOf(profile), pArgs, pOptions, 1)
           /\ pIdx' = pIdx + 1
           /\ UNCHANGED <<pState, pOutcome>>
    /\ UNCHANGED <<pProfiles, pOrder, pOptions, fmtVars, cenVars, envVars, otherVars>>

\* one callback of profileOrder.forEach
ExtractFromProfile ==
    /\ pState = "running" /\ pIdx < Len(pOrder)
    /\ LET profileType == pOrder[pIdx + 1]
           profile == ProfilesGet(pProfiles, profileType)
       IN  /\ pGets' = Append(pGets, profileType)
           /\ IF profile = Null
              THEN /\ pState' = "thrown"
                   /\ pOutcome' = <<ProfileNotFound(profileType)>>
                   /\ UNCHANGED <<pIdx, pArgs>>
              ELSE /\ pArgs' = ExtractOptions(PropertiesOf(profile), pArgs, pOptions, 1)
                   /\ pIdx' = pIdx + 1
                   /\ UNCHANGED <<pState, pOutcome>>
    /\ UNCHANGED <<pProfiles, pOrder, pOptions, fmtVars, cenVars, envVars, otherVars>>

\* return args
ReturnArgs ==
    /\ pState = "running" /\ pIdx = Len(pOrder)
    /\ pState' = "returned"
    /\ pOutcome' = <<pArgs>>
    /\ UNCHANGED <<pProfiles, pOrder, pOptions, pIdx, pArgs, pGets, fmtVars, cenVars, envVars, otherVars>>

NextProfiles == ExtractFromProfile \/ ReturnArgs

SpecProfiles == InitProfiles /\ [][NextProfiles]_vars

InitCensor ==
    /\ \/ cKind = "cli" /\ cGiven \in CliArgs
       \/ cKind = "yargs" /\ cGiven \in YargsObjects
    /\ cArgs = 1
    /\ heap = (1 :> cGiven)
    /\ cRet = <<>>
    /\ cWritten = FALSE
    /\ FormatIdle /\ ExtractionIdle /\ EnvironmentIdle /\ OtherIdle

CallCensorCLIArgs ==
    /\ cKind = "cli" /\ cRet = <<>>
    /\ LET r == censorCLIArgs(heap, cArgs)
       IN  heap' = r.heap /\ cRet' = <<r.ref>>
    /\ UNCHANGED <<cKind, cArgs, cGiven, cWritten, fmtVars, proVars, envVars, otherVars>>

CallCensorYargsArguments ==
    /\ cKind = "yargs" /\ cRet = <<>>
    /\ LET r == censorYargsArguments(heap, cArgs)
       IN  heap' = r.heap /\ cRet' = <<r.ref>>
    /\ UNCHANGED <<cKind, cArgs, cGiven, cWritten, fmtVars, proVars, envVars, otherVars>>

\* the caller overwrites one element or one entry of the returned object
CallerWrites ==
    /\ cRet # <<>> /\ ~cWritten
    /\ \E i \in 1..Len(heap[cRet[1]]) :
         heap' = [heap EXCEPT ![cRet[1]][i] =
                     IF cKind = "cli" THEN CallerValue
                     ELSE [key |-> heap[cRet[1]][i].key, value |-> CallerValue]]
    /\ cWritten' = TRUE
    /\ UNCHANGED <<cKind, cArgs, cGiven, cRet, fmtVars, proVars, envVars, otherVars>>

NextCensor == CallCensorCLIArgs \/ CallCensorYargsArguments \/ CallerWrites

SpecCensor == InitCensor /\ [][NextCensor]_vars

\* ------------------------------------------------------ specification
\* the keys of the examples in the comment of getOptionFormat
DocExamples ==
    {<<"h", "e", "l", "l", "o", "W", "o", "r", "l", "d">>,
     <<"h", "e", "l", "l", "o", "-", "w", "o", "r", "l", "d">>,
     <<"h", "e", "l", "l", "o", "-", "-", "-", "-", "-", "-", "-", "-", "w", "o", "r", "l", "d">>,
     <<"h", "e", "l", "l", "o", "-", "W", "o", "r", "l", "d", "-">>}

InitFormat ==
    /\ fKey \in StringsUpTo(MaxLen) \cup DocExamples
    /\ fOut = <<>>
    /\ fAgain = <<>>
    /\ CensorIdle /\ ExtractionIdle /\ EnvironmentIdle /\ OtherIdle

\* the caller formats its key
FormatKey ==
    /\ fOut = <<>>
    /\ fOut' = <<getOptionFormat(fKey)>>
    /\ UNCHANGED <<fKey, fAgain, cenVars, proVars, envVars, otherVars>>

\* the caller formats one of the two spellings it got back
FormatSpelling ==
    /\ fOut # <<>>
    /\ fAgain = <<>>
    /\ \E from \in {"camelCase", "kebabCase"} :
         fAgain' = <<[from |-> from, out |-> getOptionFormat(fOut[1][from])]>>
    /\ UNCHANGED <<fKey, fOut, cenVars, proVars, envVars, otherVars>>

NextFormat == FormatKey \/ FormatSpelling

SpecFormat == InitFormat /\ [][NextFormat]_vars

\* the sources of a merge: null, undefined, and objects
MergeKeys == {<<"a">>, <<"b">>}
MergeValues == {<<"1">>, <<"2">>, Undefined}
MergeObjects == UNION {[names -> MergeValues] : names \in SUBSET MergeKeys}
MergeSources == {Null, Undefined} \cup {Object(p) : p \in MergeObjects}

\* the number of objects among the first i sources: the reference of the
\* i-th source when it is an object
SourceRef(given, i) == Cardinality({j \in 1..i : ~isNullOrUndefined(given[j])})

\* mergeArguments(...args) is called, each object source being an object of
\* the caller
InitMerge ==
    /\ mGiven \in UNION {[1..n -> MergeSources] : n \in 0..MaxSources}
    /\ mSources = [i \in 1..Len(mGiven) |->
                      IF isNullOrUndefined(mGiven[i]) THEN mGiven[i]
                      ELSE Ref(SourceRef(mGiven, i))]
    /\ mHeap = [r \in 1..SourceRef(mGiven, Len(mGiven)) |->
                   PropertiesOf(mGiven[CHOOSE i \in 1..Len(mGiven) :
                       ~isNullOrUndefined(mGiven[i]) /\ SourceRef(mGiven, i) = r])]
    /\ mRet = <<>>
    /\ NotMergeIdle

CallMergeArguments ==
    /\ mRet = <<>>
    /\ LET r == mergeArguments(mHeap, mSources)
       IN  mHeap' = r.heap /\ mRet' = <<r.ref>>
    /\ UNCHANGED <<mSources, mGiven, notMrgVars>>

NextMerge == CallMergeArguments

SpecMerge == InitMerge /\ [][NextMerge]_vars

\* the values given to setOptionValue
OptionValues == {<<"1">>, Undefined, Null}

\* a caller holds an option name
InitOption ==
    /\ oName \in StringsUpTo(MaxLen) \cup {Null, Undefined}
    /\ oValue = <<>>
    /\ oCall = "none"
    /\ oRet = <<>>
    /\ NotOptionIdle

\* setOptionValue(oName, value); getOptionFormat reads key.replace, which
\* throws a TypeError when the name is null or undefined
CallSetOptionValue ==
    /\ oCall = "none"
    /\ oCall' = "setOptionValue"
    /\ \E value \in OptionValues :
         /\ oValue' = value
         /\ oRet' = <<IF isNullOrUndefined(oName) THEN Throw([name |-> "TypeError"])
                       ELSE Return(setOptionValue(oName, value))>>
    /\ UNCHANGED <<oName, notOptVars>>

CallGetDashFormOfOption ==
    /\ oCall = "none"
    /\ oCall' = "getDashFormOfOption"
    /\ oRet' = <<getDashFormOfOption(oName)>>
    /\ UNCHANGED <<oName, oValue, notOptVars>>

NextOption == CallSetOptionValue \/ CallGetDashFormOfOption

SpecOption == InitOption /\ [][NextOption]_vars

\* the command tree: commands, second-level groups, top-level groups
Command(name) == [name |-> name, aliases |-> <<>>, children |-> <<>>]
GroupK == [name |-> <<"k">>, aliases |-> <<>>,
           children |-> <<Command(<<"c">>), Command(<<"d">>)>>]
\* a group without commands whose alias is the name of GroupK
GroupM == [name |-> <<"m">>, aliases |-> <<<<"k">>>>, children |-> <<>>]
Group2Lists == {<<GroupK, GroupM>>, <<GroupM, GroupK>>}
\* the group h has the alias g, which is the name of another group; the third
\* group has a blank name
TopGroups ==
    {[name |-> <<"g">>, aliases |-> <<>>, children |-> c] : c \in Group2Lists}
    \cup {[name |-> <<"h">>, aliases |-> <<<<"g">>>>, children |-> c] : c \in Group2Lists}
    \cup {[name |-> <<Space>>, aliases |-> <<>>, children |-> c] : c \in Group2Lists}
CommandTrees == UNION {[1..n -> TopGroups] : n \in 0..MaxGroups}

\* the words of a command line
Words == {<<"g">>, <<"k">>, <<Space>>}
WordLists == UNION {[1..n -> Words] : n \in 0..MaxWords}
RootCommandName == <<"c", "l", "i">>

\* configure() has registered the handlers; the command line has no options,
\* so that it is its positional words joined by spaces
InitYargs ==
    /\ yRoot \in CommandTrees
    /\ yArgv \in [positional : WordLists, V : BOOLEAN]
    /\ yCommandLine = join(yArgv.positional, <<Space>>)
    /\ yHandler = "none"
    /\ yExitCode = <<>>
    /\ yStopYargs = FALSE
    /\ ySearch = <<>>
    /\ yBuilt = <<>>
    /\ yInvoked = <<>>
    /\ NotYargsIdle

\* the test of the handler without the trim
NoCommandAttemptedUntrimmed(attemptedCommand) == Len(attemptedCommand) = 0

\* attemptedCommand.trim().length === 0
NoCommandAttempted(attemptedCommand) == Len(trim(attemptedCommand)) = 0

\* the handler of the command "*"
CatchAllCommand ==
    /\ yHandler = "none"
    /\ yHandler' = "*"
    /\ LET attemptedCommand == join(yArgv.positional, <<Space>>)
       IN  IF NoCommandAttempted(attemptedCommand)
           THEN /\ yInvoked' = <<[definition |-> "rootCommand",
                                  arguments |-> [positional |-> yArgv.positional,
                                                 V |-> yArgv.V,
                                                 version |-> IF yArgv.V THEN <<TRUE>> ELSE <<>>,
                                                 failureMessage |-> Undefined]]>>
                /\ UNCHANGED <<yExitCode, ySearch, yBuilt>>
           ELSE LET search == ClosestCommand(attemptedCommand, yRoot)
                    built == buildFailureMessage(RootCommandName, yCommandLine, yRoot,
                                                 search.closestCommand)
                IN  /\ yExitCode' = <<ERROR_EXIT_CODE>>
                    /\ ySearch' = <<search>>
                    /\ yBuilt' = <<built>>
                    /\ yInvoked' = <<[definition |-> "failedCommandDefinition",
                                      arguments |-> [positional |-> yArgv.positional,
                                                     V |-> yArgv.V,
                                                     version |-> <<>>,
                                                     failureMessage |-> built.failureMessage]]>>
    /\ UNCHANGED <<yRoot, yArgv, yCommandLine, yStopYargs, notCmdVars>>

\* the handler given to yargs.fail
YargsFail ==
    /\ yHandler = "none"
    /\ yHandler' = "fail"
    /\ yExitCode' = <<ERROR_EXIT_CODE>>
    /\ yStopYargs' = TRUE
    /\ LET built == buildFailureMessage(RootCommandName, yCommandLine, yRoot, Undefined)
       IN  /\ yBuilt' = <<built>>
           /\ yInvoked' = <<[definition |-> "failedCommandDefinition",
                             arguments |-> [positional |-> <<>>,
                                            failureMessage |-> built.failureMessage]]>>
    /\ UNCHANGED <<yRoot, yArgv, yCommandLine, ySearch, notCmdVars>>

NextYargs == CatchAllCommand \/ YargsFail

SpecYargs == InitYargs /\ [][NextYargs]_vars

\* ------------------------------------------------------------ AppSettings
\* the value false of an override, which differs from every string
False == <<"false">>

\* what a settings file can be on disk: absent, present without being JSON,
\* or the JSON text of a settings object
Missing == <<"missing">>
Malformed == <<"malformed">>
Stored(settings) == <<"stored", settings>>

\* const defaultSettings
defaultSettings == [overrides |-> [CredentialManager |-> False]]

\* mergeObjects(defaultSettings, settings): the loaded overrides over the
\* default ones
mergeObjects(defaults, settings) ==
    IF "overrides" \in DOMAIN settings
    THEN [overrides |-> settings.overrides @@ defaults.overrides]
    ELSE defaults

\* readFileSync of jsonfile: the object parsed from the file, or the error
readFileSync(files, settingsFile) ==
    IF files[settingsFile] = Missing THEN Throw([code |-> "ENOENT"])
    ELSE IF files[settingsFile] = Malformed THEN Throw([name |-> "SyntaxError"])
    ELSE Return(files[settingsFile][2])

existsSync(files, settingsFile) == files[settingsFile] # Missing

\* what the recovery function of the caller returns
RecoveredSettings == [overrides |-> [CredentialManager |-> <<"r">>]]

\* missingFileRecovery(settingsFile, defaultSettings): a recovery function
\* either returns settings or throws an error of its own
Recover(missingFileRecovery) ==
    IF missingFileRecovery = <<"throwing">> THEN Throw([name |-> "RecoveryError"])
    ELSE Return(RecoveredSettings)

\* the constructor with a catch block that calls the recovery function
\* whenever one was given
ConstructRecoversExisting(files, settingsFile, missingFileRecovery) ==
    LET read == readFileSync(files, settingsFile)
    IN  IF ~read.threw
        THEN [threw |-> FALSE, value |-> mergeObjects(defaultSettings, read.value),
              recovered |-> FALSE]
        ELSE IF missingFileRecovery # Undefined
        THEN LET settings == Recover(missingFileRecovery)
             IN  IF settings.threw
                 THEN [threw |-> TRUE, error |-> settings.error, recovered |-> TRUE]
                 ELSE [threw |-> FALSE,
                       value |-> mergeObjects(defaultSettings, settings.value),
                       recovered |-> TRUE]
        ELSE [threw |-> TRUE, error |-> read.error, recovered |-> FALSE]

\* new AppSettings(settingsFile, missingFileRecovery): the settings of the new
\* object, or the error thrown by the constructor, and whether the recovery
\* function was called
Construct(files, settingsFile, missingFileRecovery) ==
    LET read == readFileSync(files, settingsFile)
    IN  IF ~read.threw
        THEN [threw |-> FALSE, value |-> mergeObjects(defaultSettings, read.value),
              recovered |-> FALSE]
        ELSE IF missingFileRecovery # Undefined /\ ~existsSync(files, settingsFile)
        THEN LET settings == Recover(missingFileRecovery)
             IN  IF settings.threw
                 THEN [threw |-> TRUE, error |-> settings.error, recovered |-> TRUE]
                 ELSE [threw |-> FALSE,
                       value |-> mergeObjects(defaultSettings, settings.value),
                       recovered |-> TRUE]
        ELSE [threw |-> TRUE, error |-> read.error, recovered |-> FALSE]

\* if (AppSettings.mInstance)
Truthy(v) == v # Undefined /\ v # Null
\* AppSettings.mInstance == null
EqualsNull(v) == v = Null \/ v = Undefined

\* initialize without the test of mInstance
initializeUnguarded(files, objects, mInstance, settingsFile, missingFileRecovery) ==
    LET made == Construct(files, settingsFile, missingFileRecovery)
    IN  IF made.threw
        THEN [outcome |-> Throw(made.error), objects |-> objects, mInstance |-> mInstance,
              recovered |-> made.recovered]
        ELSE LET new == Alloc(objects, [settingsFile |-> settingsFile,
                                        settings |-> made.value])
             IN  [outcome |-> Return(Ref(new.ref)), objects |-> new.heap,
                  mInstance |-> Ref(new.ref), recovered |-> made.recovered]

\* AppSettings.initialize: what the call returns or throws, and the objects
\* and mInstance after it
initialize(files, objects, mInstance, settingsFile, missingFileRecovery) ==
    IF Truthy(mInstance)
    THEN [outcome |-> Throw([name |-> "SettingsAlreadyInitialized"]),
          objects |-> objects, mInstance |-> mInstance, recovered |-> FALSE]
    ELSE LET made == Construct(files, settingsFile, missingFileRecovery)
         IN  IF made.threw
             THEN [outcome |-> Throw(made.error), objects |-> objects,
                   mInstance |-> mInstance, recovered |-> made.recovered]
             ELSE LET new == Alloc(objects, [settingsFile |-> settingsFile,
                                             settings |-> made.value])
                  IN  [outcome |-> Return(Ref(new.ref)), objects |-> new.heap,
                       mInstance |-> Ref(new.ref), recovered |-> made.recovered]

\* the getter AppSettings.instance
instance(mInstance) ==
    IF EqualsNull(mInstance) THEN Throw([name |-> "SettingsNotInitialized"])
    ELSE Return(mInstance)

\* the getter AppSettings.initialized
initialized(mInstance) == Return(~EqualsNull(mInstance))

\* this.settings.overrides[override] = value
AssignOverride(settings, override, value) ==
    [settings EXCEPT !.overrides = (override :> value) @@ settings.overrides]

\* setNewOverride on the object this: the objects after the assignment, and
\* the write that writeSettingsFile starts, whose promise is pending; writeFile
\* of jsonfile serialises the object it is given when it is called
setNewOverride(objects, this, override, value) ==
    LET settings == AssignOverride(objects[this[2]].settings, override, value)
        after == [objects EXCEPT ![this[2]].settings = settings]
    IN  [objects |-> after,
         write |-> [file |-> after[this[2]].settingsFile, str |-> Stored(after[this[2]].settings),
                    promise |-> [state |-> "pending"], done |-> <<>>]]

\* a callback of writeFile that resolves the promise whatever the write did
WriteCallbackAlwaysResolves(err) == [state |-> "resolved"]

\* the callback given to writeFile: reject(err) or resolve()
WriteCallback(err) ==
    IF Truthy(err) THEN [state |-> "rejected", reason |-> err]
    ELSE [state |-> "resolved"]

\* what writeFile passes to its callback: null, or the error of the write
WriteErrors == {Null, <<"EACCES">>}

\* the names and the values that setNewOverride is given
OverrideNames == {"CredentialManager"}
OverrideValues == {False, <<"n">>}

\* the settings files and what they hold when the process starts
SettingsFiles == {"f1", "f2"}
FileStates == {Missing, Malformed, Stored([overrides |-> [CredentialManager |-> <<"m">>]])}
Recoveries == {Undefined, <<"recovery">>, <<"throwing">>}

InitSettings ==
    /\ sFiles \in [SettingsFiles -> FileStates]
    /\ sInstance = Undefined
    /\ sObjects = <<>>
    /\ sLog = <<>>
    /\ sWrites = <<>>
    /\ NotSettingsIdle

CallInitialize ==
    /\ Len(sLog) < MaxCalls
    /\ \E settingsFile \in SettingsFiles, missingFileRecovery \in Recoveries :
         LET r == initialize(sFiles, sObjects, sInstance, settingsFile, missingFileRecovery)
         IN  /\ sObjects' = r.objects
             /\ sInstance' = r.mInstance
             /\ sLog' = Append(sLog, [call |-> "initialize", outcome |-> r.outcome,
                                      settingsFile |-> settingsFile,
                                      missingFileRecovery |-> missingFileRecovery,
                                      file |-> sFiles[settingsFile],
                                      recovered |-> r.recovered])
    /\ UNCHANGED <<sFiles, sWrites, notSetVars>>

ReadInstance ==
    /\ Len(sLog) < MaxCalls
    /\ sLog' = Append(sLog, [call |-> "instance", outcome |-> instance(sInstance)])
    /\ UNCHANGED <<sFiles, sInstance, sObjects, sWrites, notSetVars>>

ReadInitialized ==
    /\ Len(sLog) < MaxCalls
    /\ sLog' = Append(sLog, [call |-> "initialized", outcome |-> initialized(sInstance)])
    /\ UNCHANGED <<sFiles, sInstance, sObjects, sWrites, notSetVars>>

CallSetNewOverride ==
    /\ Len(sLog) < MaxCalls
    /\ ~instance(sInstance).threw
    /\ \E override \in OverrideNames, value \in OverrideValues :
         LET r == setNewOverride(sObjects, instance(sInstance).value, override, value)
         IN  /\ sObjects' = r.objects
             /\ sWrites' = Append(sWrites, r.write)
             /\ sLog' = Append(sLog, [call |-> "setNewOverride", override |-> override,
                                      value |-> value,
                                      outcome |-> Return(Len(sWrites) + 1)])
    /\ UNCHANGED <<sFiles, sInstance, notSetVars>>

\* a write that was started ends, with or without an error, and writeFile
\* calls its callback
CompleteWrite ==
    /\ \E k \in 1..Len(sWrites), err \in WriteErrors :
         /\ sWrites[k].done = <<>>
         /\ sWrites' = [sWrites EXCEPT ![k].done = <<err>>,
                                       ![k].promise = WriteCallback(err)]
         /\ sFiles' = IF err = Null
                      THEN [sFiles EXCEPT ![sWrites[k].file] = sWrites[k].str]
                      ELSE sFiles
    /\ UNCHANGED <<sInstance, sObjects, sLog, notSetVars>>

NextSettings ==
    CallInitialize \/ ReadInstance \/ ReadInitialized \/ CallSetNewOverride \/ CompleteWrite

SpecSettings == InitSettings /\ [][NextSettings]_vars

\* ------------------------------------------------ claims: getOptionFormat
HasDashBefore(s, set) == \E i \in 1..(Len(s) - 1) : s[i] = Dash /\ s[i + 1] \in set
OptionNameChars == LowerChars \cup UpperChars \cup DigitChars \cup {"_", Dash}
IsOptionName(s) == \A i \in 1..Len(s) : s[i] \in OptionNameChars

\* C2 as stated: for every option name x over lowercase letters, uppercase
\* letters, digits, "_" and "-", kebab(camel(x)) = kebab(x) and
\* camel(kebab(x)) = camel(x).
C2_RoundTripAllNames ==
    (fAgain # <<>> /\ IsOptionName(fKey)) =>
        /\ fAgain[1].from = "camelCase" => fAgain[1].out.kebabCase = fOut[1].kebabCase
        /\ fAgain[1].from = "kebabCase" => fAgain[1].out.camelCase = fOut[1].camelCase

\* C2 amended: camel(kebab(x)) = camel(x) for every such x, and
\* kebab(camel(x)) = kebab(x) for every such x in which no "-" is directly
\* followed by a digit or "_".
C2_RoundTrip ==
    (fAgain # <<>> /\ IsOptionName(fKey)) =>
        /\ (fAgain[1].from = "camelCase" /\ ~HasDashBefore(fKey, DigitChars \cup {"_"}))
              => fAgain[1].out.kebabCase = fOut[1].kebabCase
        /\ fAgain[1].from = "kebabCase" => fAgain[1].out.camelCase = fOut[1].camelCase

\* a key in neither spelling, with a "-" before a letter, has gone through
\* camel and then kebab
C2_Witness ==
    /\ fAgain # <<>> /\ fAgain[1].from = "camelCase"
    /\ IsOptionName(fKey)
    /\ HasDashBefore(fKey, LowerChars) /\ ~HasDashBefore(fKey, DigitChars \cup {"_"})
    /\ fOut[1].camelCase # fKey /\ fOut[1].kebabCase # fKey

\* C9: canonicalization is idempotent: camel(camel(x)) = camel(x) and
\* kebab(kebab(x)) = kebab(x) for every string x.
C9_Idempotent ==
    fAgain # <<>> => fAgain[1].out[fAgain[1].from] = fOut[1][fAgain[1].from]

\* the kebab spelling of a key that was not in kebab spelling is formatted again
C9_Witness ==
    /\ fAgain # <<>> /\ fAgain[1].from = "kebabCase"
    /\ fOut[1].kebabCase # fKey
    /\ \E i \in 1..Len(fKey) : fKey[i] \in UpperChars

NoDoubleDash(s) == \A i \in 1..(Len(s) - 1) : ~(s[i] = Dash /\ s[i + 1] = Dash)

\* C10: for every input string the camelCase result has no "-", and the
\* kebabCase result has no uppercase letter, no two consecutive "-" and
\* does not end with "-".
C10_WellFormed ==
    fOut # <<>> =>
        LET c == fOut[1].camelCase
            k == fOut[1].kebabCase
        IN  /\ \A i \in 1..Len(c) : c[i] # Dash
            /\ \A i \in 1..Len(k) : k[i] \notin UpperChars
            /\ NoDoubleDash(k)
            /\ Len(k) > 0 => k[Len(k)] # Dash

\* a key with an uppercase letter and a single trailing "-" has been formatted
C10_Witness ==
    /\ fOut # <<>>
    /\ Len(fKey) >= 3
    /\ fKey[Len(fKey)] = Dash /\ fKey[Len(fKey) - 1] \in LowerChars
    /\ \E i \in 1..Len(fKey) : fKey[i] \in UpperChars

\* C19: each of the keys "helloWorld", "hello-world", "hello--------world"
\* and "hello-World-" gives the camel spelling "helloWorld" and the kebab
\* spelling "hello-world", and the key field is the key as it was given.
C19_DocumentedExamples ==
    (fOut # <<>> /\ fKey \in DocExamples) =>
        /\ fOut[1].camelCase = <<"h", "e", "l", "l", "o", "W", "o", "r", "l", "d">>
        /\ fOut[1].kebabCase = <<"h", "e", "l", "l", "o", "-", "w", "o", "r", "l", "d">>
        /\ fOut[1].key = fKey

\* the example with an upper-case letter after a dash and a trailing dash
C19_Witness == fOut # <<>> /\ fKey = <<"h", "e", "l", "l", "o", "-", "W", "o", "r", "l", "d", "-">>

\* ------------------------------------------------------ claims: redaction
IsCensoredName(name) == \E k \in 1..Len(CENSORED_OPTIONS) : CENSORED_OPTIONS[k] = name
IsCensoredFlag(token) ==
    \E k \in 1..Len(CENSORED_OPTIONS) :
        token = (IF Len(CENSORED_OPTIONS[k]) = 1 THEN <<"-">> ELSE <<"-", "-">>) \o CENSORED_OPTIONS[k]
\* position i (from 1) holds a censored flag that occurs at no earlier position
IsFirstOccurrence(in, i) ==
    i \in 1..Len(in) /\ IsCensoredFlag(in[i]) /\ \A j \in 1..(i - 1) : in[j] # in[i]
CliReturned == cKind = "cli" /\ cRet # <<>> /\ ~cWritten
YargsReturned == cKind = "yargs" /\ cRet # <<>> /\ ~cWritten
Returned == heap[cRet[1]]

\* C3: for every index i such that input[i] is the dash form of a censored
\* name and i+1 is a valid index, the output of censorCLIArgs has "****" at
\* index i+1, also when the same flag occurs more than once.
C3_EveryValueCensored ==
    CliReturned =>
        \A i \in 1..(Len(cGiven) - 1) :
            IsCensoredFlag(cGiven[i]) => Returned[i + 1] = CENSOR_RESPONSE

\* C4 as stated: the output of censorCLIArgs has the length of the input,
\* output[j] is "****" if and only if j-1 is the index of the first
\* occurrence in the input of the dash form of some censored name, and at
\* every other index output[j] = input[j].
C4_PlaceholderOnlyAfterFirst ==
    CliReturned =>
        /\ Len(Returned) = Len(cGiven)
        /\ \A j \in 1..Len(cGiven) :
              /\ Returned[j] = CENSOR_RESPONSE <=> IsFirstOccurrence(cGiven, j - 1)
              /\ ~IsFirstOccurrence(cGiven, j - 1) => Returned[j] = cGiven[j]

\* C4 amended: the output has the length of the input; output[j] is "****"
\* if j-1 is the index of the first occurrence in the input of the dash form
\* of some censored name, and output[j] = input[j] at every other index.
C4_PositionExact ==
    CliReturned =>
        /\ Len(Returned) = Len(cGiven)
        /\ \A j \in 1..Len(cGiven) :
              IF IsFirstOccurrence(cGiven, j - 1)
              THEN Returned[j] = CENSOR_RESPONSE
              ELSE Returned[j] = cGiven[j]

\* a censored flag occurs twice, each time before a value, and a censored
\* flag is the last token
C4_Witness ==
    /\ CliReturned
    /\ Len(cGiven) >= 3
    /\ IsCensoredFlag(cGiven[Len(cGiven)])
    /\ \E i, j \in 1..(Len(cGiven) - 1) :
          /\ i < j /\ cGiven[i] = cGiven[j] /\ IsCensoredFlag(cGiven[i])
          /\ ~IsCensoredFlag(cGiven[i + 1])
    /\ Returned # cGiven

KeySet(obj) == {obj[i].key : i \in 1..Len(obj)}
CensoredKeys(obj) == {k \in KeySet(obj) : IsCensoredName(k)}

\* C5 as stated: the output of censorYargsArguments has the key set of the
\* input; output[k] is "****" if k is a censored name or input[k] is the
\* input value of some censored key of the input, otherwise output[k] is
\* input[k]; so no output entry holds the original value of a censored key,
\* unless that value is the placeholder.
C5_SameKeysAndValues ==
    YargsReturned =>
        /\ KeySet(Returned) = KeySet(cGiven)
        /\ \A k \in KeySet(cGiven) :
              HasKey(Returned, k) /\
              Get(Returned, k) =
                  IF IsCensoredName(k) \/ \E c \in CensoredKeys(cGiven) : Get(cGiven, k) = Get(cGiven, c)
                  THEN CENSOR_RESPONSE ELSE Get(cGiven, k)

\* what JSON.parse(JSON.stringify(.)) makes of a primitive value of an object
JsonCopyOf(v) == IF v = NaN THEN Null ELSE v
KeptKeys(obj) == {k \in KeySet(obj) : Get(obj, k) # Undefined}

\* C5 amended: the keys of the output are the keys of the input whose value
\* is not undefined; for each of them output[k] is "****" if k is a censored
\* name or the JSON copy of input[k] is the JSON copy of the value of some
\* censored key among them, otherwise output[k] is the JSON copy of input[k]
\* (input[k] itself, but null for NaN); no output entry holds the original
\* value of a censored key, unless that value is the placeholder.
C5_KeyValueRedaction ==
    YargsReturned =>
        /\ KeySet(Returned) = KeptKeys(cGiven)
        /\ \A k \in KeptKeys(cGiven) :
              Get(Returned, k) =
                  IF IsCensoredName(k)
                     \/ \E c \in CensoredKeys(cGiven) \cap KeptKeys(cGiven) :
                            JsonCopyOf(Get(cGiven, k)) = JsonCopyOf(Get(cGiven, c))
                  THEN CENSOR_RESPONSE ELSE JsonCopyOf(Get(cGiven, k))
        /\ \A c \in CensoredKeys(cGiven) : \A k \in KeySet(Returned) :
              Get(Returned, k) = Get(cGiven, c) => Get(cGiven, c) = CENSOR_RESPONSE

\* a censored key, another key with the same value and a key with another
\* value have been redacted
C5_Witness ==
    /\ YargsReturned
    /\ \E c, a, o \in KeySet(cGiven) :
          /\ IsCensoredName(c) /\ ~IsCensoredName(a) /\ ~IsCensoredName(o)
          /\ Get(cGiven, c) = <<"s">> /\ Get(cGiven, a) = <<"s">> /\ Get(cGiven, o) = <<"t">>
          /\ Get(Returned, c) = CENSOR_RESPONSE /\ Get(Returned, a) = CENSOR_RESPONSE
          /\ Get(Returned, o) = <<"t">>

\* C6: after censorCLIArgs(args) or censorYargsArguments(args) has returned,
\* args holds what it held before the call, and the returned collection is
\* another object: writing to it does not change args.
C6_InputNotMutated ==
    cRet # <<>> => heap[cArgs] = cGiven /\ cRet[1] # cArgs

\* a value was redacted in the returned tokens, and the caller has written
\* to them
C6_Witness ==
    /\ cKind = "cli" /\ cRet # <<>> /\ cWritten
    /\ \E i, j \in 1..Len(cGiven) :
          /\ Returned[i] = CENSOR_RESPONSE /\ cGiven[i] # CENSOR_RESPONSE
          /\ Returned[j] = CallerValue

\* ----------------------------------------------------- claims: extraction
\* the position in profileOrder of the first profile that has a value for name
HasValue(type, name) ==
    /\ pProfiles[type] # Null
    /\ name \in DOMAIN PropertiesOf(pProfiles[type])
    /\ PropertiesOf(pProfiles[type])[name] # Undefined
IsFirstWith(i, name) ==
    /\ i \in 1..Len(pOrder)
    /\ HasValue(pOrder[i], name)
    /\ \A j \in 1..(i - 1) : ~HasValue(pOrder[j], name)
Maps(obj, key, value) == key \in DOMAIN obj /\ obj[key] = value

\* no two of the options share a camel or kebab spelling
SpellingsOf(name) == {getOptionFormat(name).camelCase, getOptionFormat(name).kebabCase}
DistinctSpellings ==
    \A k, l \in 1..Len(pOptions) :
        k # l => SpellingsOf(pOptions[k].name) \cap SpellingsOf(pOptions[l].name) = {}

\* C1: for every option definition, whatever the spelling of its name, and
\* every profileOrder: if a profile of the order has a value for the option's
\* name, the result maps the camel and kebab spellings of the name to the
\* value of the first such profile, whatever later profiles define.  (Stated
\* for options no two of which share a spelling, where the claim names one
\* value for each spelling.)
C1_FirstMatchWins ==
    (pState = "returned" /\ DistinctSpellings) =>
        \A k \in 1..Len(pOptions) : \A i \in 1..Len(pOrder) :
            IsFirstWith(i, pOptions[k].name) =>
                LET value == PropertiesOf(pProfiles[pOrder[i]])[pOptions[k].name]
                    names == getOptionFormat(pOptions[k].name)
                IN  /\ Maps(pOutcome[1], names.camelCase, value)
                    /\ Maps(pOutcome[1], names.kebabCase, value)

\* the position in profileOrder of the first profile type without a profile
IsFirstMissing(i) ==
    /\ i \in 1..Len(pOrder)
    /\ pProfiles[pOrder[i]] = Null
    /\ \A j \in 1..(i - 1) : pProfiles[pOrder[j]] # Null

\* C8: if a profile type of profileOrder has no loaded profile,
\* extractOptValueFromProfiles throws an error with a message and
\* additional details and returns nothing, also when earlier profiles have
\* contributed values; the profile types after it are not consulted.
C8_ProfileNotFoundIsFatal ==
    /\ \A i \in 1..Len(pOrder) : IsFirstMissing(i) =>
          /\ pState # "returned"
          /\ Len(pGets) <= i
          /\ pState = "running" => pIdx < i /\ Len(pGets) = pIdx
          /\ pState = "thrown" =>
                /\ pGets = SubSeq(pOrder, 1, i)
                /\ pOutcome = <<ProfileNotFound(pOrder[i])>>
                /\ DOMAIN pOutcome[1] = {"msg", "additionalDetails"}
    /\ pState = "thrown" => \E i \in 1..Len(pOrder) : IsFirstMissing(i)

\* the second profile type has no profile: the first profile has contributed
\* values, the error is thrown and the third type is not looked up
C8_Witness ==
    /\ pState = "thrown"
    /\ Len(pOrder) = 3 /\ IsFirstMissing(2)
    /\ pArgs # EmptyObject
    /\ Len(pGets) = 2

\* the k-th option has a value in a profile of the order
Supplied(k) == \E i \in 1..Len(pOrder) : HasValue(pOrder[i], pOptions[k].name)

\* C12: in every result returned by extractOptValueFromProfiles, for each
\* option that a profile of the order supplies, the camel and the kebab
\* spelling of the option name are both present and map to the same value;
\* an option that no profile supplies, or only as undefined, adds no key and
\* raises no error; the result has no other keys.
C12_DualKeys ==
    pState = "returned" =>
        /\ \A k \in 1..Len(pOptions) :
               Supplied(k) =>
                   LET names == getOptionFormat(pOptions[k].name)
                   IN  /\ names.camelCase \in DOMAIN pOutcome[1]
                       /\ names.kebabCase \in DOMAIN pOutcome[1]
                       /\ pOutcome[1][names.camelCase] = pOutcome[1][names.kebabCase]
        /\ DOMAIN pOutcome[1] =
               UNION {SpellingsOf(pOptions[k].name) : k \in {l \in 1..Len(pOptions) : Supplied(l)}}

\* ---------------------------------------------------- claims: environment
\* C7: for every option whose environment variable is set, the object
\* returned by extractEnvForOptions maps the camel and kebab spellings of
\* the option name to the value of the variable; the other options
\* contribute no key.
C7_EnvironmentValuesExtracted ==
    eRet # <<>> =>
        /\ \A k \in 1..Len(eOptions) :
              LET variable == EnvVarName(ePrefix, eOptions[k].name)
                  names == getOptionFormat(eOptions[k].name)
              IN  variable \in DOMAIN eEnv =>
                      /\ Maps(eRet[1], names.camelCase, eEnv[variable])
                      /\ Maps(eRet[1], names.kebabCase, eEnv[variable])
        /\ \A key \in DOMAIN eRet[1] :
              \E k \in 1..Len(eOptions) :
                  /\ EnvVarName(ePrefix, eOptions[k].name) \in DOMAIN eEnv
                  /\ key \in {getOptionFormat(eOptions[k].name).camelCase,
                              getOptionFormat(eOptions[k].name).kebabCase}

\* ------------------------------------------------- claims: mergeArguments
IsObjectSource(i) == ~isNullOrUndefined(mGiven[i])
SourceHas(i, key) == IsObjectSource(i) /\ key \in DOMAIN PropertiesOf(mGiven[i])
IsLastWith(i, key) ==
    SourceHas(i, key) /\ \A j \in (i + 1)..Len(mGiven) : ~SourceHas(j, key)
Merged == mHeap[mRet[1]]

\* C11: the key set of the result of mergeArguments is the union of the key
\* sets of the sources; each key maps to the value of the last source that
\* has the key; null and undefined sources count as empty objects; without
\* sources the result is the empty object; and no source object is modified.
C11_MergeRightMostWins ==
    mRet # <<>> =>
        /\ DOMAIN Merged = {key \in MergeKeys : \E i \in 1..Len(mGiven) : SourceHas(i, key)}
        /\ \A key \in DOMAIN Merged : \A i \in 1..Len(mGiven) :
               IsLastWith(i, key) => Merged[key] = PropertiesOf(mGiven[i])[key]
        /\ (\A i \in 1..Len(mGiven) : ~IsObjectSource(i)) => Merged = EmptyObject
        /\ \A i \in 1..Len(mGiven) :
               IF IsObjectSource(i)
               THEN mSources[i] = Ref(SourceRef(mGiven, i))
                    /\ mHeap[SourceRef(mGiven, i)] = PropertiesOf(mGiven[i])
               ELSE mSources[i] = mGiven[i]

\* a merge of a null source and two objects that disagree on a key
C11_Witness ==
    /\ mRet # <<>>
    /\ \E i, j, n \in 1..Len(mGiven) : \E key \in MergeKeys :
         /\ i < j /\ mGiven[n] = Null
         /\ SourceHas(i, key) /\ IsLastWith(j, key)
         /\ PropertiesOf(mGiven[i])[key] # PropertiesOf(mGiven[j])[key]
         /\ DOMAIN PropertiesOf(mGiven[i]) # DOMAIN PropertiesOf(mGiven[j])

\* ------------------------------- claims: setOptionValue, getDashFormOfOption
\* C17: for every name and value, setOptionValue(name, value) returns an
\* object whose keys are the camel and the kebab spelling of name and nothing
\* else, both mapped to value.
C17_FragmentHasBothSpellings ==
    (oCall = "setOptionValue" /\ ~isNullOrUndefined(oName)) =>
        /\ ~oRet[1].threw
        /\ DOMAIN oRet[1].value = {CamelFrom(oName, 1), KebabFrom(oName, 1)}
        /\ oRet[1].value[CamelFrom(oName, 1)] = oValue
        /\ oRet[1].value[KebabFrom(oName, 1)] = oValue

\* a name whose two spellings differ, given with a value
C17_Witness ==
    /\ oCall = "setOptionValue" /\ ~isNullOrUndefined(oName)
    /\ CamelFrom(oName, 1) # KebabFrom(oName, 1)
    /\ oName \notin {CamelFrom(oName, 1), KebabFrom(oName, 1)}
    /\ oValue = <<"1">>
    /\ Cardinality(DOMAIN oRet[1].value) = 2

\* C18: getDashFormOfOption returns "-" followed by the name for a name of
\* length 1 and "--" followed by the name for a name of length 2 or more;
\* for an empty, null or undefined name it throws an ImperativeError and
\* returns no value.
C18_DashForm ==
    oCall = "getDashFormOfOption" =>
        IF isNullOrUndefined(oName) \/ oName = <<>>
        THEN /\ oRet[1].threw
             /\ DOMAIN oRet[1].error = {"msg"}
        ELSE /\ ~oRet[1].threw
             /\ oRet[1].value = (IF Len(oName) = 1 THEN <<"-">> ELSE <<"-", "-">>) \o oName

\* a name of two characters got its dash form
C18_Witness == oCall = "getDashFormOfOption" /\ Len(oName) = 2 /\ ~oRet[1].threw

\* ------------------------------------------------ claims: YargsConfigurer
IsBlank(text) == \A i \in 1..Len(text) : text[i] = Space
Attempted == join(yArgv.positional, <<Space>>)
Entries == flattenCommandTree(yRoot)
Candidates == {i \in 1..Len(Entries) : ~IsBlank(Entries[i].fullName)}
Distance(i) == lev(Attempted, Entries[i].fullName)
\* the distance of each entry from the k-th on, 0 in the place of an entry
\* with a blank fullName
RECURSIVE DistancesFrom(_, _)
DistancesFrom(entries, k) ==
    IF k > Len(entries) THEN <<>>
    ELSE <<IF IsBlank(entries[k].fullName) THEN 0 ELSE lev(Attempted, entries[k].fullName)>>
         \o DistancesFrom(entries, k + 1)
IsNearestFirst(i) ==
    /\ i \in Candidates
    /\ \A j \in Candidates : Distance(i) <= Distance(j) /\ (j < i => Distance(i) < Distance(j))

\* C13: for a non-empty unrecognized command, closestCommand is the fullName
\* of the first entry, in the order of the flattened tree, among the entries
\* with a non-blank fullName whose distance to the attempted text is minimal:
\* a later entry with an equal distance does not replace it, and an entry
\* whose fullName is empty or blank is never chosen.
C13_NearestCommand ==
    (yHandler = "*" /\ ~IsBlank(Attempted)) =>
        LET entries == Entries
            candidates == {i \in 1..Len(entries) : ~IsBlank(entries[i].fullName)}
            distance == DistancesFrom(entries, 1)
            nearest == {i \in candidates : \A j \in candidates : distance[i] <= distance[j]}
        IN  /\ ySearch # <<>>
            /\ candidates # {} =>
                   \E i \in nearest :
                       /\ \A j \in nearest : i <= j
                       /\ ySearch[1].closestCommand = entries[i].fullName
            /\ candidates = {} => ySearch[1].closestCommand = Undefined
            /\ ySearch[1].closestCommand # Undefined => ~IsBlank(ySearch[1].closestCommand)

\* two entries at the minimal distance, of which the first was kept, in a tree
\* that has an entry with a blank fullName
C13_Witness ==
    /\ yHandler = "*" /\ ySearch # <<>>
    /\ \E i, j \in Candidates :
         /\ IsNearestFirst(i) /\ i < j /\ Distance(j) = Distance(i)
         /\ Entries[j].fullName # Entries[i].fullName
         /\ ySearch[1].closestCommand = Entries[i].fullName
    /\ \E i \in 1..Len(Entries) : i \notin Candidates

\* the number of times a fixed text occurs in a message, and where
Count(message, text) == Cardinality({i \in 1..Len(message) : message[i] = text})
Position(message, text) == CHOOSE i \in 1..Len(message) : message[i] = text
ClosestSupplied == yHandler = "*" /\ ySearch[1].closestCommand # Undefined
Message == yBuilt[1].failureMessage

\* C14: the message of buildFailureMessage starts with the header "Command
\* failed due to improper syntax" followed by the "Command entered" line and
\* ends with the usage hint; it has the "Unknown group / Did you mean" clause
\* once when a closest command was supplied and not at all otherwise; it has
\* the "Available commands are" clause exactly when the list of available
\* commands is not empty; and the clauses come in the order header, command
\* entered, did you mean, available commands, usage hint.
C14_ClauseStructure ==
    yBuilt # <<>> =>
        /\ Message[1] = "Command failed due to improper syntax"
        /\ Message[2] = "\nCommand entered: \""
        /\ Count(Message, "Command failed due to improper syntax") = 1
        /\ Count(Message, "\nCommand entered: \"") = 1
        /\ Count(Message, "\nUse \"") = 1
        /\ Count(Message, "--help\" to view groups, commands, and options.") = 1
        /\ Message[Len(Message)] = "--help\" to view groups, commands, and options."
        /\ Count(Message, "\nUnknown group: ") = (IF ClosestSupplied THEN 1 ELSE 0)
        /\ Count(Message, "Did you mean: ") = (IF ClosestSupplied THEN 1 ELSE 0)
        /\ Count(Message, "\nAvailable commands are \"") =
               (IF yBuilt[1].commands # <<>> THEN 1 ELSE 0)
        /\ ClosestSupplied =>
               /\ 2 < Position(Message, "\nUnknown group: ")
               /\ Position(Message, "\nUnknown group: ") < Position(Message, "Did you mean: ")
               /\ Position(Message, "Did you mean: ") < Position(Message, "\nUse \"")
        /\ yBuilt[1].commands # <<>> =>
               /\ 2 < Position(Message, "\nAvailable commands are \"")
               /\ Position(Message, "\nAvailable commands are \"") < Position(Message, "\nUse \"")
        /\ (ClosestSupplied /\ yBuilt[1].commands # <<>>) =>
               Position(Message, "Did you mean: ") < Position(Message, "\nAvailable commands are \"")

\* a message with all five clauses
C14_Witness ==
    /\ yBuilt # <<>>
    /\ Count(Message, "Did you mean: ") = 1
    /\ Count(Message, "\nAvailable commands are \"") = 1

\* C15: when the attempted command, the positional words joined by spaces, is
\* empty or blank, the handler of "*" invokes the root command, searches no
\* nearest command, builds no failure message and does not set the error
\* exit code; otherwise it sets the error exit code, searches the nearest
\* command and invokes the failed command with the failure message, and does
\* not invoke the root command.
C15_Routing ==
    yHandler = "*" =>
        IF IsBlank(Attempted)
        THEN /\ yInvoked[1].definition = "rootCommand"
             /\ ySearch = <<>>
             /\ yBuilt = <<>>
             /\ yInvoked[1].arguments.failureMessage = Undefined
             /\ yExitCode = <<>>
        ELSE /\ yExitCode = <<ERROR_EXIT_CODE>>
             /\ ySearch # <<>>
             /\ yBuilt # <<>>
             /\ yBuilt[1].closestCommand = ySearch[1].closestCommand
             /\ yInvoked[1].definition = "failedCommandDefinition"
             /\ yInvoked[1].arguments.failureMessage = yBuilt[1].failureMessage

\* an attempted command of spaces only went to the root command
C15_Witness ==
    /\ yHandler = "*" /\ Attempted # <<>> /\ IsBlank(Attempted)
    /\ yInvoked[1].definition = "rootCommand"

\* the k-th token of the command line: <<the token>>, <<>> when the command
\* line has fewer tokens
Token(k) ==
    LET tokens == SplitFrom(yCommandLine, 1, <<>>)
    IN  IF k <= Len(tokens) THEN <<tokens[k]>> ELSE <<>>
\* the node has the token as its name, surrounding blanks aside, or as its
\* first alias
Names(node, token) ==
    /\ token # <<>>
    /\ \/ trim(node.name) = token[1]
       \/ node.aliases # <<>> /\ node.aliases[1] = token[1]
FirstNamed(nodes, token) ==
    IF \E i \in 1..Len(nodes) : Names(nodes[i], token)
    THEN <<CHOOSE i \in 1..Len(nodes) :
             Names(nodes[i], token) /\ \A j \in 1..(i - 1) : ~Names(nodes[j], token)>>
    ELSE <<>>
ResolvedGroup == FirstNamed(yRoot, Token(1))
ResolvedGroup2 ==
    IF ResolvedGroup = <<>> THEN <<>>
    ELSE FirstNamed(yRoot[ResolvedGroup[1]].children, Token(2))
ResolvedPath ==
    (IF ResolvedGroup # <<>> THEN Token(1)[1] \o <<Space>> ELSE <<>>)
    \o (IF ResolvedGroup2 # <<>> THEN Token(2)[1] \o <<Space>> ELSE <<>>)
ResolvedCommands ==
    IF ResolvedGroup2 = <<>> THEN <<>>
    ELSE LET nodes == yRoot[ResolvedGroup[1]].children[ResolvedGroup2[1]].children
         IN  join([i \in 1..Len(nodes) |-> nodes[i].name], <<",", Space>>)
\* the text of the message between two of its fixed texts
Between(message, text, after) ==
    SubSeq(message, Position(message, text) + 1, Position(message, after) - 1)

\* C20: the usage hint of buildFailureMessage names the resolved group path:
\* the first token of the command line only if it is the name or the first
\* alias of a top-level group, and then the second token only if it is the
\* name or the first alias of a child of that group; the list of available
\* commands is not empty only when both levels matched, and is then the
\* names of the children of the second-level group, in their order, joined by
\* commas; at each level only the first matching group counts.
C20_GroupResolution ==
    yBuilt # <<>> =>
        /\ Between(Message, "\nUse \"", "--help\" to view groups, commands, and options.")
               = RootCommandName \o <<Space>> \o ResolvedPath
        /\ yBuilt[1].commands # <<>> => ResolvedGroup2 # <<>>
        /\ ResolvedGroup2 # <<>> => yBuilt[1].commands = ResolvedCommands
        /\ Count(Message, "\nAvailable commands are \"") = 1 =>
               Between(Message, "\nAvailable commands are \"", "\".") = ResolvedCommands

\* ---------------------------------------------------- claims: AppSettings
SucceededAt(i) == sLog[i].call = "initialize" /\ ~sLog[i].outcome.threw
SucceededBefore(i) == {j \in 1..(i - 1) : SucceededAt(j)}
FirstSuccess(i) == CHOOSE j \in SucceededBefore(i) : \A k \in SucceededBefore(i) : j <= k

\* C16: over any sequence of initialize, instance and initialized calls, (a)
\* instance throws SettingsNotInitialized while no initialize call has
\* succeeded, (b) an initialize call after a successful one throws
\* SettingsAlreadyInitialized and leaves the instance in place, (c) after the
\* first successful initialize every read of instance returns the object that
\* initialize returned, and initialized is true exactly when instance does not
\* throw.
C16_InitializedOnce ==
    /\ \A i \in 1..Len(sLog) :
         /\ sLog[i].call = "instance" =>
                IF SucceededBefore(i) = {}
                THEN /\ sLog[i].outcome.threw
                     /\ sLog[i].outcome.error = [name |-> "SettingsNotInitialized"]
                ELSE /\ ~sLog[i].outcome.threw
                     /\ sLog[i].outcome.value = sLog[FirstSuccess(i)].outcome.value
         /\ (sLog[i].call = "initialize" /\ SucceededBefore(i) # {}) =>
                /\ sLog[i].outcome.threw
                /\ sLog[i].outcome.error = [name |-> "SettingsAlreadyInitialized"]
         /\ sLog[i].call = "initialized" =>
                sLog[i].outcome.value = (SucceededBefore(i) # {})
    /\ IF SucceededBefore(Len(sLog) + 1) = {} THEN sInstance = Undefined
       ELSE /\ sInstance = sLog[FirstSuccess(Len(sLog) + 1)].outcome.value
            /\ DOMAIN sObjects = {sInstance[2]}

\* a failed initialize, a successful one, a refused one, and a read of the
\* instance
C16_Witness ==
    /\ Len(sLog) = 4
    /\ sLog[1].call = "initialize" /\ sLog[1].outcome.threw
    /\ SucceededAt(2)
    /\ sLog[3].call = "initialize" /\ sLog[3].outcome.threw
    /\ sLog[4].call = "instance" /\ ~sLog[4].outcome.threw

\* an initialize call made while no earlier one had succeeded: it runs the
\* constructor
Constructing(i) == sLog[i].call = "initialize" /\ SucceededBefore(i) = {}
FailedAt(i) == Constructing(i) /\ sLog[i].outcome.threw
FailedBefore(i) == {j \in 1..(i - 1) : FailedAt(j)}
Unreadable(file) == file = Missing \/ file = Malformed
ReadError(file) == IF file = Missing THEN [code |-> "ENOENT"] ELSE [name |-> "SyntaxError"]

\* C21: an initialize call whose settings file cannot be read, with no
\* recovery function or with a file that exists, throws the error of the
\* read; the recovery function is called only when it was given and the file
\* does not exist; a constructor throws only when the file cannot be read
\* and no recovery function was given, or the file exists, or the recovery
\* function itself throws; after a failed initialize, with no success so far,
\* initialized is false, instance throws SettingsNotInitialized, mInstance is
\* still undefined, no object is kept, and a later initialize succeeds
\* whenever its own file can be read or recovered.
C21_FailedInitialize ==
    /\ \A i \in 1..Len(sLog) :
         Constructing(i) =>
             LET e == sLog[i]
                 given == e.missingFileRecovery # Undefined
                 exists == e.file # Missing
             IN  /\ (Unreadable(e.file) /\ (~given \/ exists)) =>
                        e.outcome = Throw(ReadError(e.file))
                 /\ e.recovered <=> (given /\ ~exists)
                 /\ e.outcome.threw <=>
                        /\ Unreadable(e.file)
                        /\ ~given \/ exists \/ e.missingFileRecovery = <<"throwing">>
    /\ \A i \in 1..Len(sLog) :
         (FailedBefore(i) # {} /\ SucceededBefore(i) = {}) =>
             /\ sLog[i].call = "initialized" => sLog[i].outcome = Return(FALSE)
             /\ sLog[i].call = "instance" =>
                    sLog[i].outcome = Throw([name |-> "SettingsNotInitialized"])
    /\ (FailedBefore(Len(sLog) + 1) # {} /\ SucceededBefore(Len(sLog) + 1) = {}) =>
           sInstance = Undefined /\ sObjects = <<>>

\* an initialize that fails on a malformed file although a recovery function
\* was given, the two reads of the uninitialized singleton, and an initialize
\* that succeeds by recovering a missing file
C21_Witness ==
    /\ Len(sLog) = 4
    /\ FailedAt(1) /\ sLog[1].file = Malformed /\ sLog[1].missingFileRecovery # Undefined
    /\ sLog[2].call = "initialized" /\ sLog[2].outcome = Return(FALSE)
    /\ sLog[3].call = "instance" /\ sLog[3].outcome.threw
    /\ SucceededAt(4) /\ sLog[4].recovered

\* the setNewOverride calls of the log, and the last one for an override
SetCalls == {i \in 1..Len(sLog) : sLog[i].call = "setNewOverride"}
SetCallsFor(override) == {i \in SetCalls : sLog[i].override = override}
LastSet(override) ==
    CHOOSE i \in SetCallsFor(override) : \A j \in SetCallsFor(override) : j <= i
\* the settings of the singleton, in memory
InMemory == sObjects[sInstance[2]].settings
\* the write started by the i-th call of the log
WriteOf(i) == sWrites[sLog[i].outcome.value]

\* C22: every setNewOverride call starts exactly one write, of the file of
\* the instance, and what is written already holds the new value of the
\* override; the promise it returned is pending while the write is running,
\* resolved once the write has ended without an error and rejected with the
\* error of the write otherwise; whatever the writes did, the override in
\* memory has the value of the last call made for it.
C22_SetNewOverride ==
    /\ Len(sWrites) = Cardinality(SetCalls)
    /\ \A i \in SetCalls :
         LET w == WriteOf(i)
         IN  /\ w.file = sObjects[sInstance[2]].settingsFile
             /\ w.str[2].overrides[sLog[i].override] = sLog[i].value
             /\ w.done = <<>> <=> w.promise = [state |-> "pending"]
             /\ (w.done # <<>> /\ w.done[1] = Null) => w.promise = [state |-> "resolved"]
             /\ (w.done # <<>> /\ w.done[1] # Null) =>
                    w.promise = [state |-> "rejected", reason |-> w.done[1]]
    /\ \A override \in OverrideNames :
         SetCallsFor(override) # {} =>
             InMemory.overrides[override] = sLog[LastSet(override)].value

\* two calls with different values for the same override, the write of the
\* first ended well and the write of the second failed: the promise of the
\* second is rejected, the file holds the first value and the memory the
\* second
C22_Witness ==
    /\ Cardinality(SetCalls) = 2
    /\ \E i, j \in SetCalls :
         /\ i < j
         /\ sLog[i].override = sLog[j].override
         /\ sLog[i].value # sLog[j].value
         /\ WriteOf(i).promise.state = "resolved"
         /\ WriteOf(j).promise.state = "rejected"
         /\ sFiles[WriteOf(j).file][2].overrides[sLog[i].override] = sLog[i].value
         /\ InMemory.overrides[sLog[j].override] = sLog[j].value

====
